---------------------------- MODULE Spec2Model ----------------------------
(***************************************************************************)
(* ha-monitor: the health-check / notify / remediate state machine         *)
(* (internal/monitor), the smart-plug client it drives (internal/tuya),    *)
(* the settings loader (internal/config) and the cron wiring of            *)
(* cmd/main.go.  Spec drives one Monitor, SpecMain the scheduled cycles;   *)
(* SpecStatus, SpecToken, SpecLoader and SpecSign study the status test,   *)
(* getToken under concurrent callers, the Loader and the signed requests.  *)
(*                                                                         *)
(* Time is counted in units of one minute (60 s): the 5*time.Minute expiry *)
(* margin is 5 units, WaitSeconds and the server's expire_time are         *)
(* multiples of 60 s.  An HTTP exchange takes no model time; only          *)
(* time.Sleep and the pauses between calls let the clock advance.          *)
(***************************************************************************)
EXTENDS Integers, Sequences, FiniteSets, TLC

---------------------------------------------------------------------------
(* Bounds of the model *)

\* largest retry_times a settings snapshot carries
MaxRetry == 2
\* number of Check() calls made on one Monitor
MaxChecks == 3
\* last instant of the model clock
MaxTime == 1
\* number of cycles the scheduler starts
MaxCycles == 2

---------------------------------------------------------------------------
(* Program constants *)

\* 5*time.Minute, the safety margin taken off the server's expire_time
ExpiryMargin == 5
\* timeout used when the configured one is <= 0
DefaultTimeout == 10

---------------------------------------------------------------------------
(* internal/tuya *)

\* tuya.Config values; the credentials and region are opaque strings
TuyaConfigs ==
    {[Enabled |-> TRUE, AccessID |-> "id", DeviceID |-> "dev",
      WaitSeconds |-> 1],
     [Enabled |-> FALSE, AccessID |-> "", DeviceID |-> "", WaitSeconds |-> 0]}

\* c.token == nil
NilToken ==
    [nil |-> TRUE, AccessToken |-> "", RefreshToken |-> "", ExpireTime |-> 0]

\* what the token endpoint answers: success == FALSE stands for a transport
\* error, an undecodable body and "success": false alike
TokenResponses ==
    {[success |-> FALSE, access_token |-> "", refresh_token |-> "",
      expire_time |-> 0]}
    \cup [success : {TRUE}, access_token : {"at"}, refresh_token : {"rt"},
          expire_time : {ExpiryMargin + 1}]

\* the tokenInfo with the server's expire_time taken as it is
tokenInfo_NoMargin(resp, t) ==
    [nil |-> FALSE,
     AccessToken |-> resp.access_token,
     RefreshToken |-> resp.refresh_token,
     ExpireTime |-> t + resp.expire_time]

\* the tokenInfo built from a successful token response received at instant t
tokenInfo(resp, t) ==
    [nil |-> FALSE,
     AccessToken |-> resp.access_token,
     RefreshToken |-> resp.refresh_token,
     ExpireTime |-> t + resp.expire_time - ExpiryMargin]

NewClient(config) == [config |-> config, token |-> NilToken]

\* getToken at instant t; refreshResp / acquireResp are what the server
\* answers if the refresh / acquisition call is made.  One caller: the
\* re-check under the exclusive lock sees what the fast path saw.
getToken(c, t, refreshResp, acquireResp) ==
    IF ~c.token.nil /\ t < c.token.ExpireTime
    THEN [client |-> c, err |-> FALSE, access |-> c.token.AccessToken,
          calls |-> << >>]
    ELSE IF ~c.token.nil /\ c.token.RefreshToken # "" /\ refreshResp.success
    THEN [client |-> [c EXCEPT !.token = tokenInfo(refreshResp, t)],
          err |-> FALSE, access |-> refreshResp.access_token,
          calls |-> <<"refresh">>]
    ELSE LET tried == IF ~c.token.nil /\ c.token.RefreshToken # ""
                      THEN <<"refresh">> ELSE << >>
         IN IF acquireResp.success
            THEN [client |-> [c EXCEPT !.token = tokenInfo(acquireResp, t)],
                  err |-> FALSE, access |-> acquireResp.access_token,
                  calls |-> tried \o <<"acquire">>]
            ELSE [client |-> c, err |-> TRUE, access |-> "",
                  calls |-> tried \o <<"acquire">>]

\* what the three calls of one controlSwitch are answered
SwitchEnvs ==
    [refresh : TokenResponses, acquire : TokenResponses, command : BOOLEAN]

\* controlSwitch(on) at instant t
controlSwitch(c, t, on, env) ==
    LET g   == getToken(c, t, env.refresh, env.acquire)
        sw  == IF on THEN "switch_on" ELSE "switch_off"
        cmd == IF on THEN "command_on" ELSE "command_off"
    IN IF g.err
       THEN [client |-> g.client, err |-> TRUE, calls |-> <<sw>> \o g.calls]
       ELSE [client |-> g.client, err |-> ~env.command,
             calls |-> <<sw>> \o g.calls \o <<cmd>>]

\* RestartDevice that goes on to the on-toggle whatever the off-toggle did
RestartDevice_IgnoresOffFailure(c, t, offEnv, onEnv) ==
    IF ~c.config.Enabled
    THEN [client |-> c, err |-> "nil", calls |-> << >>, toggles |-> << >>,
          end |-> t]
    ELSE LET off == controlSwitch(c, t, FALSE, offEnv)
             t2 == t + c.config.WaitSeconds
             on == controlSwitch(off.client, t2, TRUE, onEnv)
         IN [client |-> on.client,
             err |-> IF off.err THEN "off" ELSE IF on.err THEN "on" ELSE "nil",
             calls |-> off.calls \o <<"sleep">> \o on.calls,
             toggles |-> <<[on |-> FALSE, err |-> off.err],
                           [on |-> TRUE, err |-> on.err]>>,
             end |-> t2]

\* RestartDevice without the Enabled test of line 60
RestartDevice_IgnoresEnabled(c, t, offEnv, onEnv) ==
    LET off == controlSwitch(c, t, FALSE, offEnv)
    IN IF off.err
       THEN [client |-> off.client, err |-> "off", calls |-> off.calls,
             toggles |-> <<[on |-> FALSE, err |-> TRUE]>>, end |-> t]
       ELSE LET t2 == t + c.config.WaitSeconds
                on == controlSwitch(off.client, t2, TRUE, onEnv)
            IN [client |-> on.client,
                err |-> IF on.err THEN "on" ELSE "nil",
                calls |-> off.calls \o <<"sleep">> \o on.calls,
                toggles |-> <<[on |-> FALSE, err |-> FALSE],
                              [on |-> TRUE, err |-> on.err]>>,
                end |-> t2]

\* RestartDevice at instant t: off, sleep WaitSeconds, on.
\* err is "nil", "off" (failed to turn off switch) or "on" (failed to turn
\* on switch); toggles lists the controlSwitch calls made and how each ended.
RestartDevice(c, t, offEnv, onEnv) ==
    IF ~c.config.Enabled
    THEN [client |-> c, err |-> "nil", calls |-> << >>, toggles |-> << >>,
          end |-> t]
    ELSE LET off == controlSwitch(c, t, FALSE, offEnv)
         IN IF off.err
            THEN [client |-> off.client, err |-> "off", calls |-> off.calls,
                  toggles |-> <<[on |-> FALSE, err |-> TRUE]>>, end |-> t]
            ELSE LET t2 == t + c.config.WaitSeconds
                     on == controlSwitch(off.client, t2, TRUE, onEnv)
                 IN [client |-> on.client,
                     err |-> IF on.err THEN "on" ELSE "nil",
                     calls |-> off.calls \o <<"sleep">> \o on.calls,
                     toggles |-> <<[on |-> FALSE, err |-> FALSE],
                                   [on |-> TRUE, err |-> on.err]>>,
                     end |-> t2]

\* every way one RestartDevice at instant t can go (a disabled client makes
\* no call, so what the server would answer does not matter)
RestartOutcomes(c, t) ==
    LET envs == IF c.config.Enabled THEN SwitchEnvs
                ELSE {CHOOSE e \in SwitchEnvs : TRUE}
    IN {RestartDevice(c, t, offEnv, onEnv) : offEnv \in envs, onEnv \in envs}

---------------------------------------------------------------------------
(* internal/config and the settings main hands to the Monitor *)

\* two config files, apart from their retry_times
ConfigFiles ==
    {[HAURL |-> "ha1", HAToken |-> "tk1", Timeout |-> 0,
      Notify |-> [APIURL |-> "n1", APIToken |-> "nt1", TopicID |-> 1],
      Tuya |-> CHOOSE tc \in TuyaConfigs : tc.Enabled],
     [HAURL |-> "ha2", HAToken |-> "tk2", Timeout |-> 5,
      Notify |-> [APIURL |-> "n2", APIToken |-> "nt2", TopicID |-> 2],
      Tuya |-> CHOOSE tc \in TuyaConfigs : ~tc.Enabled]}

\* config.Config snapshots the loader can hold (retry_times is not validated:
\* a file without it yields 0)
Settings ==
    {[HAURL |-> s.HAURL, HAToken |-> s.HAToken, Notify |-> s.Notify,
      Timeout |-> s.Timeout, RetryTimes |-> r, Tuya |-> s.Tuya] :
        s \in ConfigFiles, r \in 0..MaxRetry}

---------------------------------------------------------------------------
(* internal/monitor *)

StatusCodes == {200, 404}

\* what client.Do returns: a transport error, or a response with a status
HTTPResults ==
    {[err |-> TRUE, status |-> 0]} \cup [err : {FALSE}, status : StatusCodes]

\* the status test with its upper end written <= 300
isSuccessStatus_Includes300(code) == code >= 200 /\ code <= 300

isSuccessStatus(code) == code >= 200 /\ code < 300

effectiveTimeout(timeout) == IF timeout <= 0 THEN DefaultTimeout ELSE timeout

NewMonitor(s) ==
    [url |-> s.HAURL, token |-> s.HAToken, notifyConf |-> s.Notify,
     tuyaClient |-> NewClient(s.Tuya), retryTimes |-> s.RetryTimes,
     timeout |-> effectiveTimeout(s.Timeout),
     clientTimeout |-> effectiveTimeout(s.Timeout),
     failCount |-> 0, hasNotified |-> FALSE]

\* TRUE iff sendNotification returns an error
sendNotification(resp) == resp.err \/ ~isSuccessStatus(resp.status)

\* the threshold test written with > in place of >=
thresholdReached_OffByOne(m, fc) == fc > m.retryTimes

\* the threshold test of lines 68 and 86, on the incremented count
thresholdReached(m, fc) == fc >= m.retryTimes

\* remediation that gives up when RestartDevice fails
remediate_AbortsOnRestartFailure(m, fc, cause, r, notifyResp) ==
    LET nerr == sendNotification(notifyResp)
    IN IF r.err # "nil"
       THEN [m |-> [m EXCEPT !.failCount = fc, !.tuyaClient = r.client],
             result |-> cause,
             calls |-> <<"probe", "RestartDevice">> \o r.calls,
             restart |-> [err |-> r.err, toggles |-> r.toggles],
             end |-> r.end]
       ELSE [m |-> [m EXCEPT !.failCount = fc, !.tuyaClient = r.client,
                             !.hasNotified = IF nerr THEN @ ELSE TRUE],
             result |-> IF nerr THEN "notification failed" ELSE cause,
             calls |-> <<"probe", "RestartDevice">> \o r.calls
                       \o <<"notifyDown">>,
             restart |-> [err |-> r.err, toggles |-> r.toggles],
             end |-> r.end]

\* remediation that marks the Monitor notified before it notifies, and
\* returns the probe's error whatever the notification did
remediate_IgnoresNotifyFailure(m, fc, cause, r, notifyResp) ==
    [m |-> [m EXCEPT !.failCount = fc, !.tuyaClient = r.client,
                     !.hasNotified = TRUE],
     result |-> cause,
     calls |-> <<"probe", "RestartDevice">> \o r.calls \o <<"notifyDown">>,
     restart |-> [err |-> r.err, toggles |-> r.toggles], end |-> r.end]

\* lines 69-79 and 87-97: restart the device, then send the down-notification
remediate(m, fc, cause, r, notifyResp) ==
    LET nerr == sendNotification(notifyResp)
    IN [m |-> [m EXCEPT !.failCount = fc, !.tuyaClient = r.client,
                        !.hasNotified = IF nerr THEN @ ELSE TRUE],
        result |-> IF nerr THEN "notification failed" ELSE cause,
        calls |-> <<"probe", "RestartDevice">> \o r.calls \o <<"notifyDown">>,
        restart |-> [err |-> r.err, toggles |-> r.toggles], end |-> r.end]

NoRestart == [err |-> "nil", toggles |-> << >>]

\* recovery that keeps the Down state when the recovery notification fails
recover_NeedsNotification(m, t, notifyResp) ==
    IF m.hasNotified
    THEN IF sendNotification(notifyResp)
         THEN [m |-> m, result |-> "notification failed",
               calls |-> <<"probe", "notifyUp">>, restart |-> NoRestart,
               end |-> t]
         ELSE [m |-> [m EXCEPT !.hasNotified = FALSE, !.failCount = 0],
               result |-> "nil", calls |-> <<"probe", "notifyUp">>,
               restart |-> NoRestart, end |-> t]
    ELSE [m |-> m, result |-> "nil", calls |-> <<"probe">>,
          restart |-> NoRestart, end |-> t]

\* recovery that zeroes the count and forgets to clear hasNotified
recover_KeepsNotified(m, t, notifyResp) ==
    IF m.hasNotified
    THEN [m |-> [m EXCEPT !.failCount = 0],
          result |-> "nil", calls |-> <<"probe", "notifyUp">>,
          restart |-> NoRestart, end |-> t]
    ELSE [m |-> m, result |-> "nil", calls |-> <<"probe">>,
          restart |-> NoRestart, end |-> t]

\* recovery that zeroes the count on every successful probe
recover_AlwaysResets(m, t, notifyResp) ==
    IF m.hasNotified
    THEN [m |-> [m EXCEPT !.hasNotified = FALSE, !.failCount = 0],
          result |-> "nil", calls |-> <<"probe", "notifyUp">>,
          restart |-> NoRestart, end |-> t]
    ELSE [m |-> [m EXCEPT !.failCount = 0], result |-> "nil",
          calls |-> <<"probe">>, restart |-> NoRestart, end |-> t]

\* lines 101-112: the probe succeeded
recover(m, t, notifyResp) ==
    IF m.hasNotified
    THEN [m |-> [m EXCEPT !.hasNotified = FALSE, !.failCount = 0],
          result |-> "nil", calls |-> <<"probe", "notifyUp">>,
          restart |-> NoRestart, end |-> t]
    ELSE [m |-> m, result |-> "nil", calls |-> <<"probe">>,
          restart |-> NoRestart, end |-> t]

\* Check() at instant t.  probe is what the GET to m.url returns, r how the
\* RestartDevice call goes if it is made, notifyResp what the notification
\* endpoint returns if it is called.  calls lists, in order, the outbound
\* calls made; restart is what RestartDevice did and the error Check logs.
Check(m, t, probe, r, notifyResp) ==
    IF probe.err \/ ~isSuccessStatus(probe.status)
    THEN LET fc == m.failCount + 1
             cause == IF probe.err THEN "transport error"
                      ELSE "unexpected status code"
         IN IF thresholdReached(m, fc)
            THEN remediate(m, fc, cause, r, notifyResp)
            ELSE [m |-> [m EXCEPT !.failCount = fc], result |-> cause,
                  calls |-> <<"probe">>, restart |-> NoRestart, end |-> t]
    ELSE recover(m, t, notifyResp)

\* UpdateConfig that also starts the failure bookkeeping afresh
UpdateConfig_ResetsState(m, s) ==
    [m EXCEPT !.url = s.HAURL, !.token = s.HAToken, !.notifyConf = s.Notify,
              !.tuyaClient = NewClient(s.Tuya), !.retryTimes = s.RetryTimes,
              !.timeout = effectiveTimeout(s.Timeout),
              !.clientTimeout = effectiveTimeout(s.Timeout),
              !.failCount = 0, !.hasNotified = FALSE]

UpdateConfig(m, s) ==
    [m EXCEPT !.url = s.HAURL, !.token = s.HAToken, !.notifyConf = s.Notify,
              !.tuyaClient = NewClient(s.Tuya), !.retryTimes = s.RetryTimes,
              !.timeout = effectiveTimeout(s.Timeout),
              !.clientTimeout = effectiveTimeout(s.Timeout)]

---------------------------------------------------------------------------
(* One caller driving a Monitor: any sequence of UpdateConfig and Check *)

VARIABLES
    mon,    \* the Monitor
    now,    \* time.Now()
    last,   \* the latest call on the Monitor: its inputs, calls and result
    hist,   \* kept since NewMonitor: calls made, current run of failures
    loaded, \* main: the snapshot Loader.config points to
    cron,   \* main: the scheduler, "running" until c.Stop()
    cycles, \* main: the runs of the job func, each with its position
    clients, \* main: the Client objects made so far
    callers, \* tuya: the goroutines inside Client.getToken
    mu,      \* tuya: the holder of Client.mu's write lock (0: free)
    configs, \* config: the Config objects Loader.load has allocated
    lconfig, \* config: Loader.config, an index into configs
    loading, \* config: the Loader.load in progress and how the last one ended
    readers, \* config: the goroutines using a snapshot from Loader.Get
    req      \* tuya: the signed request built last

\* the state of the parts below that are studied on their own
auxVars == <<callers, mu, configs, lconfig, loading, readers, req>>

vars == <<mon, now, last, hist, loaded, cron, cycles, clients, auxVars>>

mainVars == <<loaded, cron, cycles, clients>>

\* what of the Monitor a call found
Pre(m) ==
    [failCount |-> m.failCount, hasNotified |-> m.hasNotified,
     retryTimes |-> m.retryTimes, tokenNil |-> m.tuyaClient.token.nil]

NoHTTP == [err |-> FALSE, status |-> 0]

NoSettings == CHOOSE s \in Settings : TRUE

NoCall ==
    [op |-> "none", arg |-> NoSettings, pre |-> Pre(NewMonitor(NoSettings)),
     probe |-> NoHTTP, notify |-> NoHTTP, calls |-> << >>, result |-> "nil",
     restart |-> NoRestart]

\* the number of entries of seq equal to e
Count(seq, e) == Cardinality({i \in 1..Len(seq) : seq[i] = e})

Failed(probe) == probe.err \/ ~isSuccessStatus(probe.status)

\* no goroutine in getToken, no loader, no request
AuxInit ==
    /\ callers = << >>
    /\ mu = 0
    /\ configs = << >>
    /\ lconfig = 0
    /\ loading = << >>
    /\ readers = << >>
    /\ req = << >>

Init ==
    /\ \E s \in Settings : mon = NewMonitor(s)
    /\ now = 0
    /\ last = NoCall
    /\ hist = [nChecks |-> 0, runLen |-> 0, notifyWorked |-> TRUE,
               retryStable |-> TRUE]
    /\ loaded = NoSettings
    /\ cron = "none"
    /\ cycles = << >>
    /\ clients = << >>
    /\ AuxInit

CallCheck ==
    /\ hist.nChecks < MaxChecks
    /\ \E r \in RestartOutcomes(mon.tuyaClient, now) :
       \E probe \in HTTPResults, notifyResp \in HTTPResults :
          LET c == Check(mon, now, probe, r, notifyResp)
              notified == Count(c.calls, "notifyDown")
                          + Count(c.calls, "notifyUp") > 0
          IN /\ c.end <= MaxTime
             /\ mon' = c.m
             /\ now' = c.end
             /\ last' = [op |-> "Check", arg |-> NoSettings,
                         pre |-> Pre(mon), probe |-> probe,
                         notify |-> IF notified THEN notifyResp ELSE NoHTTP,
                         calls |-> c.calls, result |-> c.result,
                         restart |-> c.restart]
             /\ hist' = [hist EXCEPT
                   !.nChecks = @ + 1,
                   !.runLen = IF Failed(probe) THEN @ + 1 ELSE 0,
                   !.notifyWorked =
                        @ /\ ~(notified /\ sendNotification(notifyResp))]
    /\ UNCHANGED <<mainVars, auxVars>>

CallUpdateConfig ==
    \E s \in Settings :
       /\ mon' = UpdateConfig(mon, s)
       /\ last' = [NoCall EXCEPT !.op = "UpdateConfig", !.arg = s,
                                 !.pre = Pre(mon)]
       /\ hist' = [hist EXCEPT
                     !.retryStable = @ /\ s.RetryTimes = mon.retryTimes]
       /\ UNCHANGED now
    /\ UNCHANGED <<mainVars, auxVars>>

\* time passes between two calls
Advance ==
    /\ now < MaxTime
    /\ now' = now + 1
    /\ UNCHANGED <<mon, last, hist>>
    /\ UNCHANGED <<mainVars, auxVars>>

Next == CallCheck \/ CallUpdateConfig \/ Advance

Spec == Init /\ [][Next]_vars

---------------------------------------------------------------------------
(* cmd/main.go: the loader, the cron scheduler and the cycles it starts.   *)
(* In this part mon.tuyaClient is a pointer: the index in clients of the   *)
(* Client the Monitor holds.  Each step below is taken as one atomic step; *)
(* m.failCount++ is a load and a store.                                    *)

\* the cycles the scheduler starts, each in a goroutine of its own
CycleIds == 1..MaxCycles

\* the contents the config file takes while the process runs
MainSettings == {s \in Settings : s.RetryTimes = 1}

NotStarted ==
    [pc |-> "unstarted", cfg |-> NoSettings, fc |-> 0, client |-> 0,
     wake |-> 0]

Running(c) == cycles[c].pc \notin {"unstarted", "done"}

\* a job func that has returned: its locals are gone
Returned == [NotStarted EXCEPT !.pc = "done"]

\* the cycle at position pc, with the locals that are no longer read dropped
At(cy, pc) ==
    IF pc = "done" THEN Returned
    ELSE [cy EXCEPT !.pc = pc,
                    !.cfg = IF pc = "update" THEN @ ELSE NoSettings,
                    !.fc = IF pc = "increment" THEN @ ELSE 0,
                    !.client = IF pc = "sleep" THEN @ ELSE 0,
                    !.wake = IF pc = "sleep" THEN @ ELSE 0]

MainInit ==
    /\ \E s \in MainSettings :
          /\ loaded = s
          /\ mon = [NewMonitor(s) EXCEPT !.tuyaClient = 1]
          /\ clients = <<NewClient(s.Tuya)>>
    /\ cron = "running"
    /\ cycles = [c \in CycleIds |-> NotStarted]
    /\ now = 0
    /\ last = NoCall
    /\ hist = [nChecks |-> 0, runLen |-> 0, notifyWorked |-> TRUE,
               retryStable |-> TRUE]
    /\ AuxInit

\* the schedule fires: cron starts the job func in a new goroutine, whether
\* or not an earlier run of it has returned
CronTick ==
    /\ cron = "running"
    /\ \E c \in CycleIds :
          /\ cycles[c].pc = "unstarted"
          /\ \A k \in 1..(c - 1) : cycles[k].pc # "unstarted"
          /\ cycles' = [cycles EXCEPT ![c].pc = "get"]
    /\ UNCHANGED <<mon, now, last, hist, loaded, cron, clients>>
    /\ UNCHANGED auxVars

\* currentCfg := loader.Get()
JobGet(c) ==
    /\ cycles[c].pc = "get"
    /\ cycles' = [cycles EXCEPT ![c] = At([@ EXCEPT !.cfg = loaded], "update")]
    /\ UNCHANGED <<mon, now, last, hist, loaded, cron, clients>>
    /\ UNCHANGED auxVars

\* mon.UpdateConfig(currentCfg...)
JobUpdateConfig(c) ==
    /\ cycles[c].pc = "update"
    /\ LET u == UpdateConfig(mon, cycles[c].cfg)
       IN /\ clients' = Append(clients, u.tuyaClient)
          /\ mon' = [u EXCEPT !.tuyaClient = Len(clients) + 1]
    /\ cycles' = [cycles EXCEPT ![c] = At(@, "probe")]
    /\ UNCHANGED <<now, last, hist, loaded, cron>>
    /\ UNCHANGED auxVars

\* mon.Check(): the probe returns; on failure m.failCount is loaded
JobProbe(c) ==
    /\ cycles[c].pc = "probe"
    /\ \E probe \in HTTPResults :
          cycles' = [cycles EXCEPT
             ![c] = IF Failed(probe)
                    THEN At([@ EXCEPT !.fc = mon.failCount], "increment")
                    ELSE IF mon.hasNotified THEN At(@, "notifyUp")
                    ELSE At(@, "done")]
    /\ UNCHANGED <<mon, now, last, hist, loaded, cron, clients>>
    /\ UNCHANGED auxVars

\* the incremented count is stored and compared with the threshold
JobIncrement(c) ==
    /\ cycles[c].pc = "increment"
    /\ mon' = [mon EXCEPT !.failCount = cycles[c].fc + 1]
    /\ cycles' = [cycles EXCEPT
          ![c] = IF thresholdReached(mon, cycles[c].fc + 1)
                 THEN At(@, "switchOff") ELSE At(@, "done")]
    /\ UNCHANGED <<now, last, hist, loaded, cron, clients>>
    /\ UNCHANGED auxVars

\* m.tuyaClient.RestartDevice(), up to its time.Sleep
JobSwitchOff(c) ==
    /\ cycles[c].pc = "switchOff"
    /\ LET a == mon.tuyaClient
       IN IF ~clients[a].config.Enabled
          THEN /\ cycles' = [cycles EXCEPT ![c] = At(@, "notifyDown")]
               /\ UNCHANGED clients
          ELSE \E env \in SwitchEnvs :
                  LET off == controlSwitch(clients[a], now, FALSE, env)
                  IN /\ clients' = [clients EXCEPT ![a] = off.client]
                     /\ cycles' = [cycles EXCEPT
                           ![c] = IF off.err THEN At(@, "notifyDown")
                                  ELSE At([@ EXCEPT
                                     !.client = a,
                                     !.wake = now
                                        + clients[a].config.WaitSeconds],
                                     "sleep")]
    /\ UNCHANGED <<mon, now, last, hist, loaded, cron>>
    /\ UNCHANGED auxVars

\* RestartDevice after its time.Sleep: the on-toggle
JobSwitchOn(c) ==
    /\ cycles[c].pc = "sleep"
    /\ now >= cycles[c].wake
    /\ \E env \in SwitchEnvs :
          LET a == cycles[c].client
              on == controlSwitch(clients[a], now, TRUE, env)
          IN clients' = [clients EXCEPT ![a] = on.client]
    /\ cycles' = [cycles EXCEPT ![c] = At(@, "notifyDown")]
    /\ UNCHANGED <<mon, now, last, hist, loaded, cron>>
    /\ UNCHANGED auxVars

\* m.notifyDown() and what follows it
JobNotifyDown(c) ==
    /\ cycles[c].pc = "notifyDown"
    /\ \E resp \in HTTPResults :
          mon' = [mon EXCEPT
                    !.hasNotified = IF sendNotification(resp) THEN @ ELSE TRUE]
    /\ cycles' = [cycles EXCEPT ![c] = At(@, "done")]
    /\ UNCHANGED <<now, last, hist, loaded, cron, clients>>
    /\ UNCHANGED auxVars

\* m.notifyUp() and the reset that follows it
JobNotifyUp(c) ==
    /\ cycles[c].pc = "notifyUp"
    /\ mon' = [mon EXCEPT !.hasNotified = FALSE, !.failCount = 0]
    /\ cycles' = [cycles EXCEPT ![c] = At(@, "done")]
    /\ UNCHANGED <<now, last, hist, loaded, cron, clients>>
    /\ UNCHANGED auxVars

\* the config file changes and Loader.load installs the new snapshot
Reload ==
    /\ \E s \in MainSettings : s # loaded /\ loaded' = s
    /\ UNCHANGED <<mon, now, last, hist, cron, cycles, clients>>
    /\ UNCHANGED auxVars

\* SIGINT / SIGTERM: c.Stop() ends the scheduling, not the running jobs
Shutdown ==
    /\ cron = "running"
    /\ cron' = "stopped"
    /\ UNCHANGED <<mon, now, last, hist, loaded, cycles, clients>>
    /\ UNCHANGED auxVars

MainAdvance ==
    /\ now < MaxTime
    /\ now' = now + 1
    /\ UNCHANGED <<mon, last, hist, loaded, cron, cycles, clients>>
    /\ UNCHANGED auxVars

MainNext ==
    \/ CronTick
    \/ \E c \in CycleIds :
          \/ JobGet(c)
          \/ JobUpdateConfig(c)
          \/ JobProbe(c)
          \/ JobIncrement(c)
          \/ JobSwitchOff(c)
          \/ JobSwitchOn(c)
          \/ JobNotifyDown(c)
          \/ JobNotifyUp(c)
    \/ Reload
    \/ Shutdown
    \/ MainAdvance

SpecMain == MainInit /\ [][MainNext]_vars

---------------------------------------------------------------------------
(* Check with the probe and the notification endpoint answering any status *)
(* around the ends of the 2xx range                                        *)

\* the status codes below, at and above the ends of the range, and 404
EdgeStatusCodes == {199, 200, 204, 299, 300, 404}

EdgeHTTPResults ==
    {[err |-> TRUE, status |-> 0]}
    \cup [err : {FALSE}, status : EdgeStatusCodes]

\* mon.Check() with the two endpoints answering any of EdgeHTTPResults
CallCheckStatus ==
    /\ hist.nChecks < MaxChecks
    /\ \E r \in RestartOutcomes(mon.tuyaClient, now) :
       \E probe \in EdgeHTTPResults, notifyResp \in EdgeHTTPResults :
          LET c == Check(mon, now, probe, r, notifyResp)
              notified == Count(c.calls, "notifyDown")
                          + Count(c.calls, "notifyUp") > 0
          IN /\ c.end <= MaxTime
             /\ mon' = c.m
             /\ now' = c.end
             /\ last' = [op |-> "Check", arg |-> NoSettings,
                         pre |-> Pre(mon), probe |-> probe,
                         notify |-> IF notified THEN notifyResp ELSE NoHTTP,
                         calls |-> c.calls, result |-> c.result,
                         restart |-> c.restart]
             /\ hist' = [hist EXCEPT
                   !.nChecks = @ + 1,
                   !.runLen = IF Failed(probe) THEN @ + 1 ELSE 0,
                   !.notifyWorked =
                        @ /\ ~(notified /\ sendNotification(notifyResp))]
    /\ UNCHANGED <<mainVars, auxVars>>

\* a Monitor whose settings leave the device integration off
StatusInit ==
    /\ Init
    /\ ~mon.tuyaClient.config.Enabled

SpecStatus == StatusInit /\ [][CallCheckStatus]_vars

---------------------------------------------------------------------------
(* internal/tuya: goroutines calling getToken on one Client, clients[1].   *)
(* time.Now() is read at each validity test and when a token response is   *)
(* turned into a tokenInfo; a token request is answered in the step that   *)
(* sends it.                                                               *)

\* number of goroutines that call getToken
MaxCallers == 2
\* last instant of the clock in this part
MaxTokenTime == 3

CallerIds == 1..MaxCallers

\* expire_time as the server reports it: the margin itself, which leaves no
\* validity, and two units more
ServerTTLs == {ExpiryMargin, ExpiryMargin + 2}

\* the access token of the n-th token the server issues
TokenName(n) == <<"at1", "at2", "at3", "at4", "at5", "at6">>[n]

\* what the token endpoint can answer when it has issued n tokens so far
TokenReplies(n) ==
    {[success |-> FALSE, access_token |-> "", refresh_token |-> "",
      expire_time |-> 0]}
    \cup [success : {TRUE}, access_token : {TokenName(n + 1)},
          refresh_token : {"", "rt"}, expire_time : ServerTTLs]

\* token != nil && time.Now().Before(token.ExpireTime)
tokenValid(tok, t) == ~tok.nil /\ t < tok.ExpireTime

\* a goroutine that has not called getToken yet.  seen / tseen: the token
\* the latest validity test looked at and its instant; miss: the tokens
\* stored so far when the fast path missed; turn: its place in the order
\* in which the write lock was taken; calls: its token requests, in order;
\* after: c.token when it returned
NotCalled ==
    [pc |-> "idle", seen |-> NilToken, tseen |-> 0, miss |-> 0, turn |-> 0,
     calls |-> << >>, access |-> "", err |-> FALSE, after |-> NilToken]

\* the tokens stored in the cache so far
Issued ==
    Cardinality({p \in CallerIds \X (1..2) :
                    /\ p[2] <= Len(callers[p[1]].calls)
                    /\ callers[p[1]].calls[p[2]].reply.success})

\* the goroutines that have taken the write lock so far
Locked == {g \in CallerIds : callers[g].turn > 0}

TokenInit ==
    /\ \E tc \in TuyaConfigs : tc.Enabled /\ clients = <<NewClient(tc)>>
    /\ callers = [g \in CallerIds |-> NotCalled]
    /\ mu = 0
    /\ now = 0
    /\ mon = NewMonitor(NoSettings)
    /\ last = NoCall
    /\ hist = [nChecks |-> 0, runLen |-> 0, notifyWorked |-> TRUE,
               retryStable |-> TRUE]
    /\ loaded = NoSettings
    /\ cron = "none"
    /\ cycles = << >>
    /\ configs = << >>
    /\ lconfig = 0
    /\ loading = << >>
    /\ readers = << >>
    /\ req = << >>

tokenFrame ==
    UNCHANGED <<mon, last, hist, loaded, cron, cycles, configs, lconfig,
                loading, readers, req>>

\* lines 182-189: read c.token under the read lock, return it if valid
GetTokenFast(g) ==
    /\ callers[g].pc = "idle"
    /\ \A k \in 1..(g - 1) : callers[k].pc # "idle"
    /\ mu = 0
    /\ UNCHANGED <<mu, clients, now>>
    /\ LET token == clients[1].token
       IN callers' = [callers EXCEPT ![g] =
            IF tokenValid(token, now)
            THEN [@ EXCEPT !.pc = "done", !.seen = token, !.tseen = now,
                           !.access = token.AccessToken,
                           !.after = clients'[1].token]
            ELSE [@ EXCEPT !.pc = "wait", !.miss = Issued]]
    /\ tokenFrame

\* what GetTokenLock does to the goroutine that has just taken the lock
lockStep(cl, n, t) ==
    LET token == clients[1].token
    IN IF tokenValid(token, t)
       THEN [cl EXCEPT !.pc = "done", !.seen = token, !.tseen = t,
                       !.turn = n, !.access = token.AccessToken,
                       !.after = token]
       ELSE [cl EXCEPT !.pc = IF ~token.nil /\ token.RefreshToken # ""
                              THEN "refresh" ELSE "acquire",
                       !.seen = token, !.tseen = t, !.turn = n]

\* GetTokenLock that does not wait for the holder of the lock
GetTokenLock_NotExclusive(g) ==
    /\ callers[g].pc = "wait"
    /\ UNCHANGED <<clients, now>>
    /\ callers' = [callers EXCEPT
                     ![g] = lockStep(@, Cardinality(Locked) + 1, now)]
    /\ mu' = IF callers'[g].pc = "done" THEN mu ELSE g
    /\ tokenFrame

\* GetTokenLock without the second test of line 196
GetTokenLock_NoRecheck(g) ==
    /\ callers[g].pc = "wait"
    /\ mu = 0
    /\ UNCHANGED <<clients, now>>
    /\ LET token == clients[1].token
       IN callers' = [callers EXCEPT ![g] =
             [@ EXCEPT !.pc = IF ~token.nil /\ token.RefreshToken # ""
                              THEN "refresh" ELSE "acquire",
                       !.seen = token, !.tseen = now,
                       !.turn = Cardinality(Locked) + 1]]
    /\ mu' = g
    /\ tokenFrame

\* lines 192-201: take the write lock, test c.token again; return it if it
\* is valid (the deferred Unlock runs), else go on to refresh or acquire
GetTokenLock(g) ==
    /\ callers[g].pc = "wait"
    /\ mu = 0
    /\ UNCHANGED <<clients, now>>
    /\ callers' = [callers EXCEPT
                     ![g] = lockStep(@, Cardinality(Locked) + 1, now)]
    /\ mu' = IF callers'[g].pc = "done" THEN 0 ELSE g
    /\ tokenFrame

\* lines 202-208: c.refreshToken(c.token.RefreshToken)
GetTokenRefresh(g) ==
    /\ callers[g].pc = "refresh"
    /\ \E reply \in TokenReplies(Issued) :
          LET call == [kind |-> "refresh", reply |-> reply, t |-> now]
          IN IF reply.success
             THEN /\ clients' = [clients EXCEPT
                                   ![1].token = tokenInfo(reply, now)]
                  /\ callers' = [callers EXCEPT ![g] =
                        [@ EXCEPT !.pc = "done",
                                  !.calls = Append(@, call),
                                  !.access = clients'[1].token.AccessToken,
                                  !.after = clients'[1].token]]
                  /\ mu' = 0
             ELSE /\ callers' = [callers EXCEPT ![g] =
                        [@ EXCEPT !.pc = "acquire",
                                  !.calls = Append(@, call)]]
                  /\ UNCHANGED <<clients, mu>>
    /\ UNCHANGED now
    /\ tokenFrame

\* GetTokenAcquire that drops the cached record when the acquisition fails
GetTokenAcquire_ClearsOnFailure(g) ==
    /\ callers[g].pc = "acquire"
    /\ \E reply \in TokenReplies(Issued) :
          LET call == [kind |-> "acquire", reply |-> reply, t |-> now]
          IN /\ clients' = [clients EXCEPT
                              ![1].token = IF reply.success
                                           THEN tokenInfo(reply, now)
                                           ELSE NilToken]
             /\ callers' = [callers EXCEPT ![g] =
                   [@ EXCEPT !.pc = "done",
                             !.calls = Append(@, call),
                             !.err = ~reply.success,
                             !.access = clients'[1].token.AccessToken,
                             !.after = clients'[1].token]]
    /\ mu' = 0
    /\ UNCHANGED now
    /\ tokenFrame

\* lines 211-217: c.getNewToken()
GetTokenAcquire(g) ==
    /\ callers[g].pc = "acquire"
    /\ \E reply \in TokenReplies(Issued) :
          LET call == [kind |-> "acquire", reply |-> reply, t |-> now]
          IN /\ IF reply.success
                THEN clients' = [clients EXCEPT
                                   ![1].token = tokenInfo(reply, now)]
                ELSE UNCHANGED clients
             /\ callers' = [callers EXCEPT ![g] =
                   [@ EXCEPT !.pc = "done",
                             !.calls = Append(@, call),
                             !.err = ~reply.success,
                             !.access = IF reply.success
                                        THEN clients'[1].token.AccessToken
                                        ELSE "",
                             !.after = clients'[1].token]]
    /\ mu' = 0
    /\ UNCHANGED now
    /\ tokenFrame

TokenAdvance ==
    /\ now < MaxTokenTime
    /\ now' = now + 1
    /\ UNCHANGED <<callers, mu, clients>>
    /\ tokenFrame

TokenNext ==
    \/ \E g \in CallerIds :
          \/ GetTokenFast(g)
          \/ GetTokenLock(g)
          \/ GetTokenRefresh(g)
          \/ GetTokenAcquire(g)
    \/ TokenAdvance

SpecToken == TokenInit /\ [][TokenNext]_vars

---------------------------------------------------------------------------
(* internal/config: Loader.load on a change of the config file, and        *)
(* goroutines that call Loader.Get and then read the fields of the Config  *)
(* they were given, as the job func of main does.  configs is the heap of  *)
(* Config objects; Loader.config and the readers hold indexes into it.     *)

\* number of goroutines that call Loader.Get
MaxReaders == 1
\* number of reloads after the one NewLoader makes
MaxLoads == 2

ReaderIds == 1..MaxReaders

\* the fields of a Config, in the order Unmarshal fills them and main reads
\* them
ConfigFields ==
    <<"HAURL", "HAToken", "Notify", "Tuya", "RetryTimes", "Timeout">>

\* var cfg Config
ZeroConfig ==
    [HAURL |-> "", HAToken |-> "", Timeout |-> 0, RetryTimes |-> 0,
     Notify |-> [APIURL |-> "", APIToken |-> "", TopicID |-> 0],
     Tuya |-> [Enabled |-> FALSE, AccessID |-> "", DeviceID |-> "",
               WaitSeconds |-> 0]]

\* no load in progress.  file: what the config file holds; target: the
\* Config being filled; k: the fields filled so far; result: how the latest
\* load ended; prev / prevVal: Loader.config and its Config when it began
NotLoading ==
    [pc |-> "idle", file |-> NoSettings, target |-> 0, k |-> 0,
     result |-> "none", prev |-> 0, prevVal |-> NoSettings, n |-> 0]

\* a goroutine that has not called Get.  ptr: what Get returned; snap: the
\* Config it pointed to at that moment; got: the fields read so far
NotReading ==
    [pc |-> "idle", ptr |-> 0, snap |-> NoSettings, k |-> 0,
     got |-> ZeroConfig]

LoaderInit ==
    /\ \E s \in MainSettings : configs = <<s>>
    /\ lconfig = 1
    /\ loading = NotLoading
    /\ readers = [r \in ReaderIds |-> NotReading]
    /\ mon = NewMonitor(NoSettings)
    /\ now = 0
    /\ last = NoCall
    /\ hist = [nChecks |-> 0, runLen |-> 0, notifyWorked |-> TRUE,
               retryStable |-> TRUE]
    /\ loaded = NoSettings
    /\ cron = "none"
    /\ cycles = << >>
    /\ clients = << >>
    /\ callers = << >>
    /\ mu = 0
    /\ req = << >>

loaderFrame ==
    UNCHANGED <<mon, now, last, hist, loaded, cron, cycles, clients, callers,
                mu, req>>

\* LoadBegin that unmarshals into the Config Loader.config points to
LoadBegin_InPlace ==
    /\ loading.pc = "idle"
    /\ loading.n < MaxLoads
    /\ \E s \in MainSettings :
          /\ s # configs[lconfig]
          /\ loading' = [NotLoading EXCEPT
                           !.pc = "unmarshal", !.file = s,
                           !.target = lconfig,
                           !.prev = lconfig, !.prevVal = configs[lconfig],
                           !.n = loading.n + 1]
    /\ UNCHANGED <<configs, lconfig, readers>>
    /\ loaderFrame

\* lines 63-78: the file has changed; load takes the write lock and
\* declares a new Config
LoadBegin ==
    /\ loading.pc = "idle"
    /\ loading.n < MaxLoads
    /\ \E s \in MainSettings :
          /\ s # configs[lconfig]
          /\ configs' = Append(configs, ZeroConfig)
          /\ loading' = [NotLoading EXCEPT
                           !.pc = "unmarshal", !.file = s,
                           !.target = Len(configs) + 1,
                           !.prev = lconfig, !.prevVal = configs[lconfig],
                           !.n = loading.n + 1]
    /\ UNCHANGED <<lconfig, readers>>
    /\ loaderFrame

\* line 79: Unmarshal fills the next field
LoadField ==
    /\ loading.pc = "unmarshal"
    /\ loading.k < Len(ConfigFields)
    /\ LET f == ConfigFields[loading.k + 1]
       IN configs' = [configs EXCEPT ![loading.target][f] = loading.file[f]]
    /\ loading' = [loading EXCEPT !.k = @ + 1]
    /\ UNCHANGED <<lconfig, readers>>
    /\ loaderFrame

\* lines 79-81: Unmarshal returns an error; load returns it and unlocks
LoadFail ==
    /\ loading.pc = "unmarshal"
    /\ loading.k < Len(ConfigFields)
    /\ loading' = [loading EXCEPT !.pc = "idle", !.result = "failed"]
    /\ UNCHANGED <<configs, lconfig, readers>>
    /\ loaderFrame

\* lines 83-84: l.config = &cfg, and the deferred Unlock
LoadPublish ==
    /\ loading.pc = "unmarshal"
    /\ loading.k = Len(ConfigFields)
    /\ lconfig' = loading.target
    /\ loading' = [loading EXCEPT !.pc = "idle", !.result = "ok"]
    /\ UNCHANGED <<configs, readers>>
    /\ loaderFrame

\* Loader.Get: under the read lock, which a load in progress holds off
ReaderGet(r) ==
    /\ readers[r].pc = "idle"
    /\ loading.pc = "idle"
    /\ readers' = [readers EXCEPT ![r] =
                     [NotReading EXCEPT !.pc = "read", !.ptr = lconfig,
                                        !.snap = configs[lconfig]]]
    /\ UNCHANGED <<configs, lconfig, loading>>
    /\ loaderFrame

\* main, lines 55-73: the next field of *currentCfg is read, with no lock
ReaderField(r) ==
    /\ readers[r].pc = "read"
    /\ LET f == ConfigFields[readers[r].k + 1]
           k == readers[r].k + 1
       IN readers' = [readers EXCEPT ![r] =
             [@ EXCEPT !.got[f] = configs[readers[r].ptr][f],
                       !.k = k,
                       !.pc = IF k = Len(ConfigFields) THEN "done"
                              ELSE "read"]]
    /\ UNCHANGED <<configs, lconfig, loading>>
    /\ loaderFrame

LoaderNext ==
    \/ LoadBegin
    \/ LoadField
    \/ LoadFail
    \/ LoadPublish
    \/ \E r \in ReaderIds : ReaderGet(r) \/ ReaderField(r)

SpecLoader == LoaderInit /\ [][LoaderNext]_vars

---------------------------------------------------------------------------
(* internal/tuya: the requests getNewToken, refreshToken and controlSwitch *)
(* build and sign.  A string is the sequence of the literal pieces and the *)
(* values it is formatted from; in this part now is time.Now().UnixMilli().*)

\* last value of the millisecond clock in this part
MaxStamp == 12

\* the credentials of the client that signs
SignConfigs ==
    [Enabled : {TRUE}, AccessID : {"ida", "idb"}, AccessKey : {"key"},
     DeviceID : {"dev"}, Region : {"cn"}, WaitSeconds : {1}]

RefreshTokens == {"rt1", "rt2"}

AccessTokens == {"at1", "at2"}

Digit(d) == <<"0", "1", "2", "3", "4", "5", "6", "7", "8", "9">>[d + 1]

RECURSIVE Decimal(_)
\* fmt.Sprintf("%d", n) for n >= 0
Decimal(n) == IF n < 10 THEN <<Digit(n)>>
              ELSE Decimal(n \div 10) \o <<Digit(n % 10)>>

\* fmt.Sprintf("%x", sha256.Sum256(data)): the digest stands for its input
Sha256Hex(data) == <<"sha256hex(">> \o data \o <<")">>

\* strings.ToUpper(hex.EncodeToString(h.Sum(nil))) of HMAC-SHA256 keyed with
\* key over msg: the signature stands for its key and message
HmacHex(key, msg) == [key |-> key, msg |-> msg]

\* json.Marshal of the commands body of controlSwitch
commandBody(on) ==
    <<"{\"commands\":[{\"code\":\"switch_1\",\"value\":",
      IF on THEN "true" ELSE "false", "}]}">>

requestURL(c, path) == <<"https://openapi.tuya", c.Region, ".com">> \o path

\* calculateSign: HMAC over client_id + t + stringToSign
calculateSign(c, stringToSign, timestamp) ==
    HmacHex(c.AccessKey, <<c.AccessID>> \o Decimal(timestamp) \o stringToSign)

\* getNewToken that signs like every other call
newTokenRequest_SignsPath(c, timestamp) ==
    LET path == <<"/v1.0/token?grant_type=1">>
    IN [kind |-> "token", config |-> c, method |-> "GET",
        path |-> path, url |-> requestURL(c, path), body |-> << >>,
        sign |-> calculateSign(c, <<"GET\n\n\n">> \o path, timestamp),
        timestamp |-> timestamp, client_id |-> c.AccessID,
        t |-> Decimal(timestamp),
        access_token |-> << >>]

\* the request of getNewToken, lines 81-101
newTokenRequest(c, timestamp) ==
    LET path == <<"/v1.0/token?grant_type=1">>
        message == <<c.AccessID>> \o Decimal(timestamp)
    IN [kind |-> "token", config |-> c, method |-> "GET",
        path |-> path, url |-> requestURL(c, path), body |-> << >>,
        sign |-> HmacHex(c.AccessKey, message),
        timestamp |-> timestamp, client_id |-> c.AccessID,
        t |-> Decimal(timestamp),
        access_token |-> << >>]

\* the request of refreshToken, lines 140-157
refreshRequest(c, refreshToken, timestamp) ==
    LET path == <<"/v1.0/token/", refreshToken>>
        stringToSign == <<"GET\n\n\n">> \o path
    IN [kind |-> "refresh", config |-> c, method |-> "GET",
        path |-> path, url |-> requestURL(c, path), body |-> << >>,
        sign |-> calculateSign(c, stringToSign, timestamp),
        timestamp |-> timestamp, client_id |-> c.AccessID,
        t |-> Decimal(timestamp),
        access_token |-> << >>]

\* the request of controlSwitch, lines 227-262
commandRequest(c, token, on, timestamp) ==
    LET path == <<"/v1.0/iot-03/devices/", c.DeviceID, "/commands">>
        jsonData == commandBody(on)
        contentHash == Sha256Hex(jsonData)
        stringToSign == <<"POST\n">> \o contentHash \o <<"\n\n">> \o path
    IN [kind |-> "command", config |-> c, method |-> "POST",
        path |-> path, url |-> requestURL(c, path), body |-> jsonData,
        sign |-> calculateSign(c, stringToSign, timestamp),
        timestamp |-> timestamp, client_id |-> c.AccessID,
        t |-> Decimal(timestamp),
        access_token |-> <<token>>]

SignInit ==
    /\ req = << >>
    /\ now = 0
    /\ mon = NewMonitor(NoSettings)
    /\ last = NoCall
    /\ hist = [nChecks |-> 0, runLen |-> 0, notifyWorked |-> TRUE,
               retryStable |-> TRUE]
    /\ loaded = NoSettings
    /\ cron = "none"
    /\ cycles = << >>
    /\ clients = << >>
    /\ callers = << >>
    /\ mu = 0
    /\ configs = << >>
    /\ lconfig = 0
    /\ loading = << >>
    /\ readers = << >>

signFrame ==
    UNCHANGED <<mon, last, hist, loaded, cron, cycles, clients, callers, mu,
                configs, lconfig, loading, readers>>

BuildNewToken ==
    /\ \E c \in SignConfigs : req' = <<newTokenRequest(c, now)>>
    /\ UNCHANGED now
    /\ signFrame

BuildRefresh ==
    /\ \E c \in SignConfigs, rt \in RefreshTokens :
          req' = <<refreshRequest(c, rt, now)>>
    /\ UNCHANGED now
    /\ signFrame

BuildCommand ==
    /\ \E c \in SignConfigs, token \in AccessTokens, on \in BOOLEAN :
          req' = <<commandRequest(c, token, on, now)>>
    /\ UNCHANGED now
    /\ signFrame

SignAdvance ==
    /\ now < MaxStamp
    /\ now' = now + 1
    /\ UNCHANGED req
    /\ signFrame

SignNext == BuildNewToken \/ BuildRefresh \/ BuildCommand \/ SignAdvance

SpecSign == SignInit /\ [][SignNext]_vars

---------------------------------------------------------------------------
(* Properties of Check, UpdateConfig and RestartDevice under Spec *)

Has(seq, e) == \E i \in 1..Len(seq) : seq[i] = e

\* the position of the first e in seq (0 if there is none)
Pos(seq, e) ==
    IF Has(seq, e) THEN CHOOSE i \in 1..Len(seq) :
                           seq[i] = e /\ \A k \in 1..(i - 1) : seq[k] # e
    ELSE 0

Checked == last.op = "Check"

ProbeFailed == Failed(last.probe)

\* C1: a failed probe handled while hasNotified is already true invokes
\* neither RestartDevice nor a down-notification; both are made only by a
\* failed probe that brings failCount to retryTimes or more while
\* hasNotified is false.
C1_NoRemediationWhileNotified ==
    (Checked /\ (Has(last.calls, "RestartDevice")
                 \/ Has(last.calls, "notifyDown")))
        => /\ ProbeFailed
           /\ last.pre.failCount + 1 >= last.pre.retryTimes
           /\ ~last.pre.hasNotified

\* C2: from a fresh Monitor with threshold N >= 1 that is not reconfigured
\* and a working notification endpoint, N consecutive failing Check calls
\* invoke RestartDevice and the down-notification exactly once each, both in
\* the N-th call and none in calls 1..N-1, and end with failCount = N and
\* hasNotified = TRUE.
C2_ThresholdScenario ==
    (/\ Checked
     /\ hist.retryStable
     /\ hist.notifyWorked
     /\ mon.retryTimes >= 1
     /\ hist.runLen = hist.nChecks
     /\ hist.nChecks <= mon.retryTimes)
        => /\ mon.failCount = hist.nChecks
           /\ IF hist.nChecks < mon.retryTimes
              THEN /\ Count(last.calls, "RestartDevice") = 0
                   /\ Count(last.calls, "notifyDown") = 0
                   /\ ~mon.hasNotified
              ELSE /\ Count(last.calls, "RestartDevice") = 1
                   /\ Count(last.calls, "notifyDown") = 1
                   /\ ~last.pre.hasNotified
                   /\ mon.hasNotified

C2_Witness ==
    /\ Checked
    /\ hist.retryStable
    /\ hist.notifyWorked
    /\ mon.retryTimes >= 2
    /\ hist.runLen = hist.nChecks
    /\ hist.nChecks = mon.retryTimes
    /\ mon.hasNotified
    /\ mon.tuyaClient.config.Enabled

\* C3: with a fixed threshold N >= 1 and a working notification endpoint,
\* hasNotified goes from false to true exactly in the Check call that makes
\* the current contiguous run of failed probes N long: once per run of
\* length >= N, at the call where the count of the run first reaches N.
C3_OncePerFailureRun ==
    (/\ Checked
     /\ hist.retryStable
     /\ hist.notifyWorked
     /\ mon.retryTimes >= 1)
        => ((~last.pre.hasNotified /\ mon.hasNotified)
              <=> (ProbeFailed /\ hist.runLen = mon.retryTimes))

\* C4: a Check that finds hasNotified true and whose probe succeeds attempts
\* exactly one recovery notification and returns nil with hasNotified false
\* and failCount 0, whether or not that notification succeeded.
C4_Recovery ==
    (Checked /\ last.pre.hasNotified /\ ~ProbeFailed)
        => /\ Count(last.calls, "notifyUp") = 1
           /\ Count(last.calls, "notifyDown") = 0
           /\ ~mon.hasNotified
           /\ mon.failCount = 0
           /\ last.result = "nil"

C4_Witness ==
    /\ Checked
    /\ last.pre.hasNotified
    /\ last.pre.failCount > 0
    /\ ~ProbeFailed
    /\ Has(last.calls, "notifyUp")
    /\ sendNotification(last.notify)
    /\ ~mon.hasNotified

\* C5: failCount counts consecutive failures: after any sequence of Check
\* calls it equals the number of failed probes since the latest successful
\* probe (0 if the last probe succeeded).
C5_ConsecutiveFailureCounter == mon.failCount = hist.runLen

\* C6: when the probe fails, failCount reaches the threshold and the
\* down-notification fails, Check returns the notification error instead of
\* the probe's, does not set hasNotified (false stays false) and keeps the
\* incremented failCount; a failed probe that finds failCount at the
\* threshold or above attempts restart and notification again.
C6_NotificationFailure ==
    /\ (/\ Checked
        /\ ProbeFailed
        /\ mon.failCount >= last.pre.retryTimes
        /\ sendNotification(last.notify))
          => /\ last.result = "notification failed"
             /\ mon.hasNotified = last.pre.hasNotified
             /\ mon.failCount = last.pre.failCount + 1
    /\ (/\ Checked
        /\ ProbeFailed
        /\ last.pre.failCount >= last.pre.retryTimes)
          => /\ Has(last.calls, "RestartDevice")
             /\ Has(last.calls, "notifyDown")

C6_Witness ==
    /\ Checked
    /\ ProbeFailed
    /\ last.pre.retryTimes >= 1
    /\ last.pre.failCount >= last.pre.retryTimes
    /\ ~last.pre.hasNotified
    /\ sendNotification(last.notify)
    /\ last.result = "notification failed"
    /\ ~mon.hasNotified

\* C7: a failing RestartDevice does not abort the cycle: whenever Check
\* calls RestartDevice, whatever it returns, the down-notification follows
\* it as the last call, and hasNotified is true afterwards iff it was true
\* before or the notification succeeded; no down-notification is sent
\* without the restart attempt before it.
C7_RestartFailureNotFatal ==
    Checked
        => /\ Has(last.calls, "RestartDevice") <=> Has(last.calls, "notifyDown")
           /\ Has(last.calls, "RestartDevice")
                => /\ Pos(last.calls, "RestartDevice")
                        < Pos(last.calls, "notifyDown")
                   /\ Pos(last.calls, "notifyDown") = Len(last.calls)
                   /\ mon.hasNotified
                        <=> (last.pre.hasNotified
                             \/ ~sendNotification(last.notify))

C7_Witness ==
    /\ Checked
    /\ last.restart.err # "nil"
    /\ Has(last.calls, "notifyDown")
    /\ ~last.pre.hasNotified
    /\ mon.hasNotified

\* C8: UpdateConfig leaves failCount and hasNotified as they were, for
\* every settings value, and installs the url, token, notify settings,
\* threshold and timeout of the settings and a new device client with an
\* empty token cache.
C8_UpdateConfigFrame ==
    last.op = "UpdateConfig"
        => /\ mon.failCount = last.pre.failCount
           /\ mon.hasNotified = last.pre.hasNotified
           /\ mon.url = last.arg.HAURL
           /\ mon.token = last.arg.HAToken
           /\ mon.notifyConf = last.arg.Notify
           /\ mon.retryTimes = last.arg.RetryTimes
           /\ mon.timeout = effectiveTimeout(last.arg.Timeout)
           /\ mon.clientTimeout = mon.timeout
           /\ mon.tuyaClient.config = last.arg.Tuya
           /\ mon.tuyaClient.token = NilToken

C8_Witness ==
    /\ last.op = "UpdateConfig"
    /\ last.pre.failCount > 0
    /\ last.pre.hasNotified
    /\ ~last.pre.tokenNil
    /\ last.arg.RetryTimes > last.pre.retryTimes
    /\ mon.failCount < mon.retryTimes
    /\ mon.hasNotified

\* C10: RestartDevice toggles off, waits, then toggles on; a failed
\* off-toggle makes it return an error without attempting the on-toggle,
\* and a failed on-toggle after a successful off-toggle makes it return an
\* error.
C10_RestartOrder ==
    (Checked /\ Has(last.calls, "RestartDevice"))
        => LET tg == last.restart.toggles
               c == last.calls
           IN /\ Len(tg) <= 2
              /\ Len(tg) >= 1 => ~tg[1].on
              /\ (Len(tg) >= 1 /\ tg[1].err)
                    => /\ Len(tg) = 1
                       /\ last.restart.err = "off"
                       /\ ~Has(c, "switch_on")
                       /\ ~Has(c, "command_on")
                       /\ ~Has(c, "sleep")
              /\ (Len(tg) >= 1 /\ ~tg[1].err)
                    => /\ Len(tg) = 2
                       /\ tg[2].on
                       /\ last.restart.err = (IF tg[2].err THEN "on" ELSE "nil")
                       /\ Count(c, "switch_off") = 1
                       /\ Count(c, "sleep") = 1
                       /\ Count(c, "switch_on") = 1
                       /\ Pos(c, "switch_off") < Pos(c, "command_off")
                       /\ Pos(c, "command_off") < Pos(c, "sleep")
                       /\ Pos(c, "sleep") < Pos(c, "switch_on")
              /\ Len(tg) = 0 => /\ last.restart.err = "nil"
                                /\ ~Has(c, "switch_off")
                                /\ ~Has(c, "switch_on")

C10_Witness ==
    /\ Checked
    /\ Len(last.restart.toggles) = 1
    /\ last.restart.toggles[1].err
    /\ Has(last.calls, "command_off")
    /\ last.restart.err = "off"

\* C11: with the device integration disabled, every RestartDevice returns
\* nil, makes no HTTP call (no token acquisition, refresh or device command)
\* and leaves the token cache as it was.
C11_DisabledRestartIsNoOp ==
    (/\ Checked
     /\ Has(last.calls, "RestartDevice")
     /\ ~mon.tuyaClient.config.Enabled)
        => /\ last.restart.err = "nil"
           /\ last.restart.toggles = << >>
           /\ \A i \in 1..Len(last.calls) :
                 last.calls[i] \in {"probe", "RestartDevice", "notifyDown"}
           /\ last.pre.tokenNil
           /\ mon.tuyaClient.token = NilToken

C11_Witness ==
    /\ Checked
    /\ Has(last.calls, "RestartDevice")
    /\ ~mon.tuyaClient.config.Enabled
    /\ last.pre.failCount > last.pre.retryTimes
    /\ last.pre.hasNotified
    /\ last.restart.err = "nil"

---------------------------------------------------------------------------
(* Properties of the status classification under SpecStatus *)

InRange2xx(code) == 200 <= code /\ code <= 299

\* C12: a probe response counts as success iff its status is in 200..299:
\* 204 and 299 leave failCount un-incremented, 199, 300 and 404 increment
\* it; the notification endpoint's response is classified the same way.
C12_StatusClassification ==
    Checked
      => /\ ~last.probe.err
              => (InRange2xx(last.probe.status)
                    <=> mon.failCount # last.pre.failCount + 1)
         /\ (Has(last.calls, "notifyDown") /\ ~last.notify.err)
              => /\ InRange2xx(last.notify.status)
                       <=> last.result # "notification failed"
                 /\ (~last.pre.hasNotified)
                       => (InRange2xx(last.notify.status) <=> mon.hasNotified)

C12_Witness ==
    /\ Checked
    /\ last.probe = [err |-> FALSE, status |-> 300]
    /\ mon.failCount = last.pre.failCount + 1
    /\ Has(last.calls, "notifyDown")
    /\ last.notify = [err |-> FALSE, status |-> 299]
    /\ ~last.pre.hasNotified
    /\ mon.hasNotified

---------------------------------------------------------------------------
(* Properties of the scheduling under SpecMain *)

\* C9: at most one UpdateConfig+Check cycle is in progress at a time: the
\* scheduler starts no cycle while an earlier one has not returned.
C9_CyclesSerialized ==
    Cardinality({c \in CycleIds : Running(c)}) <= 1

---------------------------------------------------------------------------
(* The states of (failCount, hasNotified) under Spec *)

Healthy == mon.failCount = 0 /\ ~mon.hasNotified

Degrading ==
    0 < mon.failCount /\ mon.failCount < mon.retryTimes /\ ~mon.hasNotified

Down == mon.failCount >= mon.retryTimes /\ mon.hasNotified

\* the threshold is reached and no down-notification has got through
Unnotified == mon.failCount >= mon.retryTimes /\ ~mon.hasNotified

\* C13: after any sequence of UpdateConfig and Check calls, with any
\* notification and restart outcomes, (failCount, hasNotified) is Healthy,
\* Degrading or Down for the currently configured retryTimes.
C13_ThreeStates == Healthy \/ Degrading \/ Down

\* C13 as amended: while no UpdateConfig has changed retryTimes, the pair is
\* Healthy, Degrading, Down or Unnotified; and after any sequence of calls
\* hasNotified implies failCount >= 1.
C13_FourStates ==
    /\ hist.retryStable => (Healthy \/ Degrading \/ Down \/ Unnotified)
    /\ mon.hasNotified => mon.failCount >= 1

C13_Witness ==
    /\ Checked
    /\ hist.retryStable
    /\ mon.retryTimes >= 1
    /\ Unnotified
    /\ sendNotification(last.notify)
    /\ last.result = "notification failed"

\* C14: failCount is set to 0 only by a Check whose probe succeeds while
\* hasNotified is true; a successful probe while hasNotified is false
\* changes neither failCount nor hasNotified; every failed probe increases
\* failCount by exactly 1.
C14_CounterFrame ==
    /\ (last.op # "none" /\ mon.failCount = 0 /\ last.pre.failCount # 0)
          => (Checked /\ ~ProbeFailed /\ last.pre.hasNotified)
    /\ (Checked /\ ~ProbeFailed /\ ~last.pre.hasNotified)
          => /\ mon.failCount = last.pre.failCount
             /\ ~mon.hasNotified
    /\ (Checked /\ ProbeFailed)
          => mon.failCount = last.pre.failCount + 1

C14_Witness ==
    /\ Checked
    /\ ~ProbeFailed
    /\ ~last.pre.hasNotified
    /\ last.pre.failCount > 0
    /\ mon.failCount = last.pre.failCount
    /\ ~mon.hasNotified

---------------------------------------------------------------------------
(* Properties of getToken under SpecToken *)

Done(g) == callers[g].pc = "done"

\* the goroutine has made a token request, or is about to
Requesting(g) ==
    callers[g].calls # << >> \/ callers[g].pc \in {"refresh", "acquire"}

\* C15: getToken issues no acquisition or refresh call while a cached token
\* record exists with now strictly before its expiry: on the fast path and
\* on the test under the write lock alike it returns the cached access
\* token and leaves the cache as it is.
C15_NoCallWhileValid ==
    \A g \in CallerIds :
       LET cl == callers[g]
       IN /\ tokenValid(cl.seen, cl.tseen)
               => /\ Done(g)
                  /\ cl.calls = << >>
                  /\ ~cl.err
                  /\ cl.access = cl.seen.AccessToken
                  /\ cl.after = cl.seen
          /\ Requesting(g)
               => /\ cl.turn > 0
                  /\ ~tokenValid(cl.seen, cl.tseen)
          /\ cl.pc \in {"refresh", "acquire"} => mu = g

\* a goroutine that missed on the fast path and found, under the write
\* lock, the token another goroutine had stored meanwhile
C15_Witness ==
    \E g, h \in CallerIds :
       /\ g # h
       /\ Done(g)
       /\ callers[g].turn > 0
       /\ tokenValid(callers[g].seen, callers[g].tseen)
       /\ callers[g].calls = << >>
       /\ callers[h].calls # << >>
       /\ callers[g].access = callers[h].access
       /\ clients[1].token = callers[g].seen

\* C16: when several goroutines call getToken on one Client with no valid
\* cached token and the remote call succeeds with validity left, one of
\* them makes the token request; each other one, once it has the write
\* lock, finds the winner's token and returns it without a request.  At
\* most one goroutine is at a token request at any time.
C16_SingleFlight ==
    /\ Cardinality({g \in CallerIds :
                       callers[g].pc \in {"refresh", "acquire"}}) <= 1
    /\ \A g, h \in CallerIds :
          (/\ g # h
           /\ callers[g].turn > 0
           /\ callers[h].turn > callers[g].turn
           /\ callers[g].miss = callers[h].miss
           /\ Done(g)
           /\ callers[g].calls # << >>
           /\ ~callers[g].err
           /\ callers[h].tseen < callers[g].after.ExpireTime)
              => /\ Done(h)
                 /\ callers[h].calls = << >>
                 /\ ~callers[h].err
                 /\ callers[h].access = callers[g].access

\* two goroutines missed on the same empty cache; one acquired, the other
\* returned the acquired token
C16_Witness ==
    \E g, h \in CallerIds :
       /\ g # h
       /\ Done(g) /\ Done(h)
       /\ callers[g].turn = 1
       /\ callers[h].turn = 2
       /\ callers[g].miss = 0
       /\ callers[h].miss = 0
       /\ Len(callers[g].calls) = 1
       /\ callers[g].calls[1].kind = "acquire"
       /\ callers[h].calls = << >>
       /\ callers[h].access = callers[g].access
       /\ callers[h].access # ""

\* C17: on the slow path with an invalid cache, a record with a non-empty
\* refresh token is refreshed first and a successful refresh replaces the
\* record with no acquisition; if the refresh fails or there is no refresh
\* token exactly one acquisition is made; if the acquisition fails getToken
\* returns an error and the cached record is what it was before the call.
C17_SlowPath ==
    \A g \in CallerIds :
       LET cl == callers[g]
           hasRT == ~cl.seen.nil /\ cl.seen.RefreshToken # ""
           n == Len(cl.calls)
           stored(reply) ==
              /\ ~cl.err
              /\ cl.access = reply.access_token
              /\ ~cl.after.nil
              /\ cl.after.AccessToken = reply.access_token
              /\ cl.after.RefreshToken = reply.refresh_token
       IN (Done(g) /\ cl.turn > 0 /\ ~tokenValid(cl.seen, cl.tseen))
            => /\ n >= 1
               /\ hasRT => cl.calls[1].kind = "refresh"
               /\ (hasRT /\ cl.calls[1].reply.success)
                    => /\ n = 1
                       /\ stored(cl.calls[1].reply)
               /\ (~hasRT \/ ~cl.calls[1].reply.success)
                    => /\ n = (IF hasRT THEN 2 ELSE 1)
                       /\ cl.calls[n].kind = "acquire"
                       /\ IF cl.calls[n].reply.success
                          THEN stored(cl.calls[n].reply)
                          ELSE /\ cl.err
                               /\ cl.access = ""
                               /\ cl.after = cl.seen

\* an expired record whose refresh fails and whose acquisition fails too
C17_Witness ==
    \E g \in CallerIds :
       /\ Done(g)
       /\ ~callers[g].seen.nil
       /\ callers[g].seen.RefreshToken # ""
       /\ Len(callers[g].calls) = 2
       /\ callers[g].calls[1].kind = "refresh"
       /\ callers[g].calls[2].kind = "acquire"
       /\ callers[g].err
       /\ clients[1].token = callers[g].seen

\* C18: a token stored at t0 with a server-reported validity T expires
\* locally at t0 + T - 5 min: a getToken at t0 + T - 6 min returns it with
\* no request, one at t0 + T - 4 min makes a refresh or an acquisition, and
\* so does one at the expiry instant itself.
C18_ExpiryMargin ==
    \A h \in CallerIds :
       LET ch == callers[h]
           n == Len(ch.calls)
       IN (Done(h) /\ n >= 1 /\ ch.calls[n].reply.success)
            => LET t0 == ch.calls[n].t
                   T == ch.calls[n].reply.expire_time
               IN /\ ch.after.ExpireTime = t0 + T - ExpiryMargin
                  /\ \A g \in CallerIds :
                        LET cg == callers[g]
                        IN (/\ g # h
                            /\ Done(g)
                            /\ ~cg.seen.nil
                            /\ cg.seen.AccessToken = ch.access)
                             => /\ cg.tseen <= t0 + T - (ExpiryMargin + 1)
                                     => /\ cg.calls = << >>
                                        /\ cg.access = ch.access
                                /\ cg.tseen >= t0 + T - ExpiryMargin
                                     => cg.calls # << >>

\* a token of validity T > 5 min stored at t0 and refreshed by a getToken
\* at t0 + T - 4 min
C18_Witness ==
    \E g, h \in CallerIds :
       /\ g # h
       /\ Done(g) /\ Done(h)
       /\ Len(callers[h].calls) = 1
       /\ callers[h].calls[1].reply.success
       /\ callers[h].calls[1].reply.expire_time > ExpiryMargin
       /\ callers[g].seen.AccessToken = callers[h].access
       /\ callers[g].tseen = callers[h].calls[1].t
                             + callers[h].calls[1].reply.expire_time
                             - (ExpiryMargin - 1)
       /\ Len(callers[g].calls) = 1
       /\ callers[g].calls[1].kind = "refresh"

---------------------------------------------------------------------------
(* Properties of the Loader under SpecLoader *)

\* C19: a Get concurrent with a reload returns the complete previous
\* snapshot or the complete new one, never a mix of fields of both; a
\* snapshot Get has returned is never changed by a later reload; a failed
\* reload leaves the previously loaded snapshot in place.
C19_AtomicSnapshot ==
    /\ configs[lconfig] \in MainSettings
    /\ \A r \in ReaderIds :
          readers[r].pc # "idle"
            => /\ readers[r].snap \in MainSettings
               /\ configs[readers[r].ptr] = readers[r].snap
               /\ \A i \in 1..readers[r].k :
                     readers[r].got[ConfigFields[i]]
                        = readers[r].snap[ConfigFields[i]]
    /\ (loading.pc = "idle" /\ loading.result = "failed")
          => /\ lconfig = loading.prev
             /\ configs[lconfig] = loading.prevVal

\* a reader that has read every field of the snapshot it got while a reload
\* has installed another one since
C19_Witness ==
    \E r \in ReaderIds :
       /\ readers[r].pc = "done"
       /\ readers[r].ptr # lconfig
       /\ readers[r].got = readers[r].snap
       /\ configs[lconfig] # readers[r].snap
       /\ loading.result = "ok"

---------------------------------------------------------------------------
(* Properties of the signed requests under SpecSign *)

\* the decimal digits of a header value, read back as a number
RECURSIVE ParseDecimal(_)
ParseDecimal(ds) ==
    IF ds = << >> THEN 0
    ELSE 10 * ParseDecimal(SubSeq(ds, 1, Len(ds) - 1))
         + (CHOOSE d \in 0..9 : Digit(d) = ds[Len(ds)])

---------------------------------------------------------------------------
(* The token cache across cycles under SpecMain *)

\* the cycle is inside Check and has not entered RestartDevice yet
BeforeRestart(c) == cycles[c].pc \in {"probe", "increment", "switchOff"}

\* C21: every cycle calls UpdateConfig before Check, so the token cache of
\* the Monitor's device client is empty from the start of the cycle's Check
\* until its RestartDevice: no cycle finds a token an earlier cycle cached,
\* and a cycle that restarts an enabled device begins with an acquisition.
C21_CacheEmptyEachCycle ==
    \A c \in CycleIds :
       BeforeRestart(c) => clients[mon.tuyaClient].token = NilToken

=============================================================================
